---- MODULE Spec2Model ----
(***************************************************************************)
(* r3.slice: vertical slice of a 3D raster between two points.             *)
(*                                                                         *)
(* Each running instance of the script is a process p with its own locals  *)
(* (proc[p]); the GRASS mapset is shared state (workspace, region).  Every *)
(* external command is one step; a command may fail, which raises          *)
(* CalledModuleError and ends the run through the atexit hook.             *)
(*                                                                         *)
(* Text is modelled as sequences of one-character strings.  Real numbers    *)
(* are exact: a float f is the integer f * FScale (Python's rounding is    *)
(* not modelled).  Python semantics are those of Python 2 (zip and map     *)
(* return lists).                                                          *)
(***************************************************************************)
EXTENDS Integers, Sequences, FiniteSets, TLC

\* ------------------------------------------------------------------ bounds
MaxCoordLen == 8
MaxLayers == 2
MaxCols == 2
MaxPid == 10

Procs == {1, 2}

\* one float unit; divisible by 2 (the average), by 100 (percent), by 20 (5%)
FScale == 2 * 100

\* ------------------------------------------------------------ text helpers
DigitChars == <<"0", "1", "2", "3", "4", "5", "6", "7", "8", "9">>

IsDigit(c) == \E i \in 1..10 : DigitChars[i] = c

DigitValue(c) == (CHOOSE i \in 1..10 : DigitChars[i] = c) - 1

\* str(n) for a natural number n
RECURSIVE Str(_)
Str(n) == IF n < 10 THEN <<DigitChars[n + 1]>>
          ELSE Str(n \div 10) \o <<DigitChars[(n % 10) + 1]>>

\* float(tok) succeeds on a non-empty run of digits (the only numerals of the
\* alphabets used here); anything else is a ValueError
IsNumeric(tok) == Len(tok) > 0 /\ \A i \in 1..Len(tok) : IsDigit(tok[i])

RECURSIVE ParseFloat(_)
ParseFloat(tok) ==
    IF Len(tok) = 0 THEN 0
    ELSE 10 * ParseFloat(SubSeq(tok, 1, Len(tok) - 1)) + DigitValue(tok[Len(tok)])

\* s.strip(',')
RECURSIVE LStrip(_)
LStrip(s) == IF Len(s) > 0 /\ s[1] = "," THEN LStrip(Tail(s)) ELSE s

RECURSIVE RStrip(_)
RStrip(s) == IF Len(s) > 0 /\ s[Len(s)] = ","
             THEN RStrip(SubSeq(s, 1, Len(s) - 1)) ELSE s

\* the text taken as it is
NoStrip(s) == s

Strip(s) == RStrip(LStrip(s))

\* s.split(','): '' gives [''], 'a,' gives ['a', '']
RECURSIVE Split(_)
Split(s) ==
    IF \A i \in 1..Len(s) : s[i] # "," THEN <<s>>
    ELSE LET i == CHOOSE k \in 1..Len(s) :
                      s[k] = "," /\ \A j \in 1..(k - 1) : s[j] # ","
         IN  <<SubSeq(s, 1, i - 1)>> \o Split(SubSeq(s, i + 1, Len(s)))

\* all texts over an alphabet up to a length
RECURSIVE TextsOfLen(_, _)
TextsOfLen(alphabet, n) ==
    IF n = 0 THEN {<<>>}
    ELSE {Append(t, c) : t \in TextsOfLen(alphabet, n - 1), c \in alphabet}

Texts(alphabet, n) == UNION {TextsOfLen(alphabet, k) : k \in 0..n}

\* ------------------------------------------------------------ raster names
PrefixBase == <<"r3_to_rast_tmp_">>

\* PREFIX = 'r3_to_rast_tmp_' + str(os.getpid())
PREFIX(pid) == PrefixBase \o Str(pid)

\* r3.to.rast names level k of output o as o_0000k
LevelName(output, k) == output \o <<"_", "0", "0", "0", "0">> \o Str(k)

StartsWith(name, prefix) ==
    Len(name) >= Len(prefix) /\ SubSeq(name, 1, Len(prefix)) = prefix

\* the pattern PREFIX + '*' of g.list and g.remove
Matches(name, pid) == StartsWith(name, PREFIX(pid))

CharCode(c) == IF IsDigit(c) THEN 48 + DigitValue(c)
               ELSE IF c = "_" THEN 95 ELSE 114

RECURSIVE NameLess(_, _)
NameLess(a, b) ==
    IF Len(a) = 0 THEN Len(b) > 0
    ELSE IF Len(b) = 0 THEN FALSE
    ELSE IF a[1] = b[1] THEN NameLess(Tail(a), Tail(b))
    ELSE CharCode(a[1]) < CharCode(b[1])

RECURSIVE Sorted(_)
Sorted(S) ==
    IF S = {} THEN <<>>
    ELSE LET m == CHOOSE x \in S : \A y \in S \ {x} : NameLess(x, y)
         IN  <<m>> \o Sorted(S \ {m})

\* read_command(...).strip().split(os.linesep): no output gives ['']
Lines(out) == IF out = <<>> THEN << <<>> >> ELSE out

\* ------------------------------------------------------------------- state
VARIABLES
    proc,       \* proc[p]: the locals of instance p (fields below)
    pid,        \* pid[p]: os.getpid() of instance p
    workspace,  \* the raster names present in the mapset
    region,     \* the active 3D region of the mapset (read only)
    shared      \* TRUE when two instances work in the same mapset

vars == <<proc, pid, workspace, region, shared>>

NotRead == <<"?">>

\* -------------------------------------------------- inputs and environment
\* An option is drawn when the code first reads it.  With two instances in
\* the mapset the inputs are narrowed to one good and one bad command line,
\* which keeps the product of the two runs small.
CoordAlphabet == {",", "1"}

\* options['coordinates']
CoordinateOptions ==
    IF shared THEN {<<"1", ",", "1", ",", "1", ",", "1">>, <<"1">>}
    ELSE Texts(CoordAlphabet, MaxCoordLen)

\* options['offset']: none, "50,25", "25", "5,"
OffsetOptions ==
    IF shared THEN {<<>>}
    ELSE {<<>>, <<"5", "0", ",", "2", "5">>, <<"2", "5">>, <<"5", ",">>}

\* options['units']: none, "m", "m,k", ","
UnitsOptions ==
    IF shared THEN {<<>>}
    ELSE {<<>>, <<"m">>, <<"m", ",", "k">>, <<",">>}

\* options['axes'], options['slice_line']: a vector map name, or none
VectorOptions == IF shared THEN {<<"v">>} ELSE {<<>>, <<"v">>}

\* number of lines r.profile prints
Samples == IF shared THEN {1} ELSE 0..MaxCols

MkRegion(ew, ns, tb, b, d) ==
    [ewres |-> ew, nsres |-> ns, tbres |-> tb, b |-> b, t |-> b + d * tb,
     depths |-> d]

Regions ==
    {MkRegion(1, 3, 2, 0, d) : d \in 1..MaxLayers} \cup
    {MkRegion(2, 4, 1, 10, d) : d \in 1..MaxLayers}

\* ------------------------------------------------------------------ floats
F(x) == x * FScale

FMul(a, b) == (a * b) \div FScale

\* int(x) for x >= 0
Truncate(x) == x \div FScale

\* --------------------------------------------------------------- __main__
\* zip(map(float, c[0::2]), map(float, c[1::2])) for four components
ZipCoordinates(c) ==
    << <<ParseFloat(c[1]), ParseFloat(c[2])>>,
       <<ParseFloat(c[3]), ParseFloat(c[4])>> >>

\* [float(each) / 100 for each in options['offset'].split(',')], else None
\* (None is the empty sequence: the list is never empty)
ParseOffset(o) ==
    IF o = <<>> THEN <<>>
    ELSE LET parts == Split(o)
         IN  [i \in 1..Len(parts) |-> F(ParseFloat(parts[i])) \div 100]

InitProc(on) ==
    [pc |-> IF on THEN "start" ELSE "off",
     outcome |-> "running",
     options |-> [coordinates |-> NotRead, offset |-> NotRead,
                  units |-> NotRead, axes |-> NotRead, slice_line |-> NotRead],
     coordinates |-> <<>>, offset |-> <<>>, maps |-> <<>>, profile |-> <<>>,
     cols |-> 0, rows |-> 0, res |-> 0,
     ext |-> [n |-> 0, s |-> 0, e |-> 0, w |-> 0],
     ascii_input |-> [header |-> [north |-> 0, south |-> 0, east |-> 0,
                                  west |-> 0, rows |-> 0, cols |-> 0],
                      rows |-> <<>>],
     todo |-> <<>>, units |-> <<>>,
     slice_ascii |-> <<>>, axes_ascii |-> <<>>, sql |-> <<>>,
     calls |-> <<>>, profiled |-> <<>>, lens |-> <<>>,
     created |-> {}, removed |-> {}]

\* raise exc: the traceback ends the run, the atexit hook follows
Raise(p, exc) ==
    /\ proc' = [proc EXCEPT ![p].outcome = exc, ![p].pc = "exit"]
    /\ UNCHANGED <<pid, workspace, region, shared>>

\* an external command that fails raises CalledModuleError
Fail(p, cmd) ==
    /\ proc' = [proc EXCEPT ![p].calls = Append(@, cmd),
                            ![p].outcome = "CalledModuleError",
                            ![p].pc = "exit"]
    /\ UNCHANGED <<pid, workspace, region, shared>>

ParseOptions(p) ==
    /\ proc[p].pc = "start"
    /\ UNCHANGED <<pid, workspace, region, shared>>
    /\ \E c \in CoordinateOptions :
         LET coordinates == Split(Strip(c)) IN
         IF Len(coordinates) # 4
         THEN \* gcore.fatal: sys.exit(1)
              proc' = [proc EXCEPT ![p].options.coordinates = c,
                                   ![p].outcome = "fatal", ![p].pc = "exit"]
         ELSE IF \E i \in 1..4 : ~IsNumeric(coordinates[i])
         THEN proc' = [proc EXCEPT ![p].options.coordinates = c,
                                   ![p].outcome = "ValueError", ![p].pc = "exit"]
         ELSE \E o \in OffsetOptions :
              IF o # <<>> /\ \E i \in 1..Len(Split(o)) : ~IsNumeric(Split(o)[i])
              THEN proc' = [proc EXCEPT ![p].options.coordinates = c,
                                        ![p].options.offset = o,
                                        ![p].coordinates = ZipCoordinates(coordinates),
                                        ![p].outcome = "ValueError",
                                        ![p].pc = "exit"]
              ELSE proc' = [proc EXCEPT ![p].options.coordinates = c,
                                        ![p].options.offset = o,
                                        ![p].coordinates = ZipCoordinates(coordinates),
                                        ![p].offset = ParseOffset(o),
                                        ![p].pc = "r3_to_rast"]

\* ------------------------------------------------------------------- main
R3ToRast(p) ==
    /\ proc[p].pc = "r3_to_rast"
    /\ \/ Fail(p, "r3.to.rast")
       \/ LET prefix == PrefixBase \o Str(pid[p])
              new == {LevelName(prefix, k) : k \in 1..region.depths}
          IN  /\ workspace' = workspace \cup new
              /\ proc' = [proc EXCEPT ![p].calls = Append(@, "r3.to.rast"),
                                      ![p].created = new,
                                      ![p].pc = "g_list"]
              /\ UNCHANGED <<pid, region, shared>>

GList(p) ==
    /\ proc[p].pc = "g_list"
    /\ \/ Fail(p, "g.list")
       \/ /\ proc' = [proc EXCEPT
                 ![p].calls = Append(@, "g.list"),
                 ![p].maps = Lines(Sorted({m \in workspace : Matches(m, pid[p])})),
                 ![p].pc = "first_profile"]
          /\ UNCHANGED <<pid, workspace, region, shared>>

\* the east-west cell size alone
ResolutionEw(r) == F(r.ewres)

\* res = (region['ewres'] + region['nsres']) / 2.
Resolution(r) == (F(r.ewres) + F(r.nsres)) \div 2

\* the points left in the order given
KeepOrder(coordinates) == coordinates

\* if coordinates[0][0] > coordinates[1][0]: swap
Normalize(coordinates) ==
    IF coordinates[1][1] > coordinates[2][1]
    THEN <<coordinates[2], coordinates[1]>>
    ELSE coordinates

Token(col, map, j) == [col |-> col, layer |-> map, sample |-> j]

\* what r.profile prints for a map: k lines "distance value"
ProfileOutput(map, k) ==
    [j \in 1..k |-> <<Token("dist", map, j), Token("value", map, j)>>]

\* s = w = 0; e = cols * res; n = rows * region['tbres']
Extent(cols, rows, res, tbres) ==
    [s |-> 0, w |-> 0, e |-> cols * res, n |-> rows * F(tbres)]

FirstProfile(p) ==
    /\ proc[p].pc = "first_profile"
    /\ LET coordinates == Normalize(proc[p].coordinates)
           map == proc[p].maps[1]
           call == [coordinates |-> coordinates, input |-> map]
       IN  \/ /\ proc' = [proc EXCEPT
                     ![p].coordinates = coordinates,
                     ![p].res = Resolution(region),
                     ![p].calls = Append(@, "r.profile"),
                     ![p].profiled = Append(@, call),
                     ![p].outcome = "CalledModuleError",
                     ![p].pc = "exit"]
              /\ UNCHANGED <<pid, workspace, region, shared>>
           \/ /\ map \in workspace
              /\ \E k \in Samples :
                   LET profile == Lines(ProfileOutput(map, k))
                       cols == Len(profile)
                       rows == Len(proc[p].maps)
                       res == Resolution(region)
                   IN  proc' = [proc EXCEPT
                           ![p].coordinates = coordinates,
                           ![p].res = res,
                           ![p].calls = Append(@, "r.profile"),
                           ![p].profiled = Append(@, call),
                           ![p].profile = profile,
                           ![p].cols = cols,
                           ![p].rows = rows,
                           ![p].ext = Extent(cols, rows, res, region.tbres),
                           ![p].pc = "offset"]
              /\ UNCHANGED <<pid, workspace, region, shared>>

\* offset[0] = w + (e - w) * float(offset[0])
OffsetX(ext, offset) == ext.w + FMul(ext.e - ext.w, offset[1])

\* offset[1] = (n - s) * float(offset[1])
OffsetY(ext, offset) == FMul(ext.n - ext.s, offset[2])

\* only east and north moved
TranslateEastNorth(ext, dx, dy) ==
    [e |-> ext.e + dx, w |-> ext.w, n |-> ext.n + dy, s |-> ext.s]

\* e += offset[0]; w += offset[0]; n += offset[1]; s += offset[1]
Translate(ext, dx, dy) ==
    [e |-> ext.e + dx, w |-> ext.w + dx, n |-> ext.n + dy, s |-> ext.s + dy]

\* the listing in its own order
forward(maps) == maps

\* reversed(maps)
RECURSIVE reversed(_)
reversed(maps) ==
    IF maps = <<>> THEN <<>> ELSE Append(reversed(Tail(maps)), Head(maps))

Header(ext, rows, cols) ==
    [north |-> ext.n, south |-> ext.s, east |-> ext.e, west |-> ext.w,
     rows |-> rows, cols |-> cols]

ApplyOffset(p) ==
    /\ proc[p].pc = "offset"
    /\ LET offset == proc[p].offset
           ext == proc[p].ext
       IN  IF offset # <<>> /\ Len(offset) < 2
           THEN Raise(p, "IndexError")
           ELSE LET moved == IF offset = <<>> THEN ext
                             ELSE Translate(ext, OffsetX(ext, offset),
                                            OffsetY(ext, offset))
                    applied == IF offset = <<>> THEN offset
                               ELSE <<OffsetX(ext, offset), OffsetY(ext, offset)>>
                                    \o SubSeq(offset, 3, Len(offset))
                IN  /\ proc' = [proc EXCEPT
                           ![p].offset = applied,
                           ![p].ext = moved,
                           ![p].ascii_input =
                               [header |-> Header(moved, proc[p].rows, proc[p].cols),
                                rows |-> <<>>],
                           ![p].todo = reversed(proc[p].maps),
                           ![p].pc = "loop"]
                    /\ UNCHANGED <<pid, workspace, region, shared>>

\* the row without its last value
RowDropLast(profile) == [i \in 1..(Len(profile) - 1) |-> profile[i][2]]

\* ' '.join([line.split()[1] for line in profile])
Row(profile) == [i \in 1..Len(profile) |-> profile[i][2]]

\* one iteration of: for map_ in reversed(maps)
SampleLayer(p) ==
    /\ proc[p].pc = "loop"
    /\ LET map_ == Head(proc[p].todo)
           rest == Tail(proc[p].todo)
           call == [coordinates |-> proc[p].coordinates, input |-> map_]
       IN  \/ /\ proc' = [proc EXCEPT
                     ![p].calls = Append(@, "r.profile"),
                     ![p].profiled = Append(@, call),
                     ![p].outcome = "CalledModuleError",
                     ![p].pc = "exit"]
              /\ UNCHANGED <<pid, workspace, region, shared>>
           \/ /\ map_ \in workspace
              /\ \E k \in Samples :
                   LET profile == Lines(ProfileOutput(map_, k)) IN
                   IF \E i \in 1..Len(profile) : Len(profile[i]) < 2
                   THEN proc' = [proc EXCEPT
                            ![p].calls = Append(@, "r.profile"),
                            ![p].profiled = Append(@, call),
                            ![p].profile = profile,
                            ![p].outcome = "IndexError",
                            ![p].pc = "exit"]
                   ELSE proc' = [proc EXCEPT
                            ![p].calls = Append(@, "r.profile"),
                            ![p].profiled = Append(@, call),
                            ![p].profile = profile,
                            ![p].lens = Append(@, k),
                            ![p].ascii_input.rows = Append(@, Row(profile)),
                            ![p].todo = rest,
                            ![p].pc = IF rest = <<>> THEN "r_in_ascii" ELSE "loop"]
              /\ UNCHANGED <<pid, workspace, region, shared>>

\* a command whose only modelled effect is that it ran
Run(p, cmd, next) ==
    \/ Fail(p, cmd)
    \/ /\ proc' = [proc EXCEPT ![p].calls = Append(@, cmd), ![p].pc = next]
       /\ UNCHANGED <<pid, workspace, region, shared>>

RInAscii(p) ==
    /\ proc[p].pc = "r_in_ascii"
    /\ Run(p, "r.in.ascii", "r_colors")

RColors(p) ==
    /\ proc[p].pc = "r_colors"
    /\ Run(p, "r.colors", "slice_line")

Feature(type, points, cats) ==
    [type |-> type, ncoords |-> Len(points), ncats |-> Len(cats),
     points |-> points, cats |-> cats]

\* the line drawn from the second point to the first
SliceAsciiReversed(coordinates) ==
    << Feature("L", <<coordinates[2], coordinates[1]>>, << <<1, 1>> >>) >>

\* 'L 2 1', the two points of coordinates, '1 1'
SliceAscii(coordinates) ==
    << Feature("L", <<coordinates[1], coordinates[2]>>, << <<1, 1>> >>) >>

SliceLine(p) ==
    /\ proc[p].pc = "slice_line"
    /\ UNCHANGED <<pid, workspace, region, shared>>
    /\ \E slice_line \in VectorOptions :
         IF slice_line = <<>>
         THEN proc' = [proc EXCEPT ![p].options.slice_line = slice_line,
                                   ![p].pc = "axes"]
         ELSE \E ok \in BOOLEAN :
                proc' = [proc EXCEPT
                    ![p].options.slice_line = slice_line,
                    ![p].slice_ascii = SliceAscii(proc[p].coordinates),
                    ![p].calls = Append(@, "v.in.ascii"),
                    ![p].outcome = IF ok THEN @ ELSE "CalledModuleError",
                    ![p].pc = IF ok THEN "axes" ELSE "exit"]

\* the frame: a line above the grid and a line right of it, each with its
\* two end points
AxesAscii(ext) ==
    LET above == ext.n + FMul(FScale \div 10, ext.n - ext.s)
        right == ext.e + FMul(FScale \div 20, ext.e - ext.w)
    IN  << Feature("L", << <<ext.w, above>>, <<ext.e, above>> >>, << <<1, 1>> >>),
           Feature("P", << <<ext.w, above>> >>, << <<2, 1>> >>),
           Feature("P", << <<ext.e, above>> >>, << <<2, 2>> >>),
           Feature("L", << <<right, ext.n>>, <<right, ext.s>> >>, << <<2, 3>> >>),
           Feature("P", << <<right, ext.n>> >>, << <<1, 2>> >>),
           Feature("P", << <<right, ext.s>> >>, << <<1, 3>> >>) >>

Axes(p) ==
    /\ proc[p].pc = "axes"
    /\ UNCHANGED <<pid, workspace, region, shared>>
    /\ \E axes \in VectorOptions :
         IF axes = <<>>
         THEN proc' = [proc EXCEPT ![p].options.axes = axes,
                                   ![p].outcome = "ok", ![p].pc = "exit"]
         ELSE \E ok \in BOOLEAN :
                proc' = [proc EXCEPT
                    ![p].options.axes = axes,
                    ![p].axes_ascii = AxesAscii(proc[p].ext),
                    ![p].calls = Append(@, "v.in.ascii"),
                    ![p].outcome = IF ok THEN @ ELSE "CalledModuleError",
                    ![p].pc = IF ok THEN "addtable" ELSE "exit"]

\* the split without the default
SplitUnitsNoDefault(units) == Split(units)

\* if units: units = units.split(',') else: units = ['', '']
SplitUnits(units) == IF units # <<>> THEN Split(units) ELSE << <<>>, <<>> >>

AddTable(p) ==
    /\ proc[p].pc = "addtable"
    /\ UNCHANGED <<pid, workspace, region, shared>>
    /\ \E units \in UnitsOptions, ok \in BOOLEAN :
         proc' = [proc EXCEPT
             ![p].options.units = units,
             ![p].units = SplitUnits(units),
             ![p].calls = Append(@, "v.db.addtable"),
             ![p].outcome = IF ok THEN @ ELSE "CalledModuleError",
             ![p].pc = IF ok THEN "db_execute" ELSE "exit"]

Update(cat, number, unit) == [cat |-> cat, number |-> number, unit |-> unit]

\* the three UPDATE statements: label = "{number} {unit}" WHERE cat = n
Sql(ext, r, units) ==
    << Update(1, Truncate(ext.e - ext.w), units[1]),
       Update(2, r.t, units[2]),
       Update(3, r.b, units[2]) >>

DbExecute(p) ==
    /\ proc[p].pc = "db_execute"
    /\ IF Len(proc[p].units) < 2
       THEN Raise(p, "IndexError")
       ELSE /\ UNCHANGED <<pid, workspace, region, shared>>
            /\ \E ok \in BOOLEAN :
                 proc' = [proc EXCEPT
                     ![p].sql = Sql(proc[p].ext, region, proc[p].units),
                     ![p].calls = Append(@, "db.execute"),
                     ![p].outcome = IF ok THEN "ok" ELSE "CalledModuleError",
                     ![p].pc = "exit"]

\* ---------------------------------------------------------------- cleanup
\* the pattern without its '*'
cleanupExactName(names, id) == {m \in names : m = PREFIX(id)}

\* g.remove -f type=raster pattern=PREFIX*: the names it deletes
cleanup(names, id) == {m \in names : Matches(m, id)}

\* the atexit hook, on every way out of the interpreter
Exit(p) ==
    /\ proc[p].pc = "exit"
    /\ workspace' = workspace \ cleanup(workspace, pid[p])
    /\ proc' = [proc EXCEPT ![p].calls = Append(@, "g.remove"),
                            ![p].removed = cleanup(workspace, pid[p]),
                            ![p].pc = "done"]
    /\ UNCHANGED <<pid, region, shared>>

\* ---------------------------------------------------------- specification
\* one instance alone in the mapset
Init ==
    /\ shared = FALSE
    /\ pid = [p \in Procs |-> p]
    /\ proc = [p \in Procs |-> InitProc(p = 1)]
    /\ workspace = {}
    /\ region \in Regions

\* two instances started in the same mapset
InitShared ==
    /\ shared = TRUE
    /\ pid \in {f \in [Procs -> 1..MaxPid] : f[1] < f[2]}
    /\ proc = [p \in Procs |-> InitProc(TRUE)]
    /\ workspace = {}
    /\ region = MkRegion(1, 3, 2, 0, 1)

Next ==
    \E p \in Procs :
        \/ ParseOptions(p)
        \/ R3ToRast(p)
        \/ GList(p)
        \/ FirstProfile(p)
        \/ ApplyOffset(p)
        \/ SampleLayer(p)
        \/ RInAscii(p)
        \/ RColors(p)
        \/ SliceLine(p)
        \/ Axes(p)
        \/ AddTable(p)
        \/ DbExecute(p)
        \/ Exit(p)

Spec == Init /\ [][Next]_vars

SpecShared == InitShared /\ [][Next]_vars

\* ================================================================= claims
PipelineCommands ==
    {"r3.to.rast", "g.list", "r.profile", "r.in.ascii", "r.colors",
     "v.in.ascii", "v.db.addtable", "db.execute"}

Invoked(p) == {proc[p].calls[i] : i \in DOMAIN proc[p].calls}

\* the components of a coordinates text: one more than the commas that lie
\* between its first and its last character that is not a comma
ComponentCount(c) ==
    LET inner == {i \in 1..Len(c) : c[i] # ","}
    IN  IF inner = {} THEN 1
        ELSE 1 + Cardinality({i \in 1..Len(c) :
                     /\ c[i] = ","
                     /\ \E a \in inner : a < i
                     /\ \E b \in inner : b > i})

\* the two points as the user gave them
Given(p) == ZipCoordinates(Split(Strip(proc[p].options.coordinates)))

HasPoints(p) == proc[p].coordinates # <<>>

PayloadSent(p) == "r.in.ascii" \in Invoked(p)

\* C1: a run that ended normally, in the fatal input error or in a failed
\* external command has run the cleanup hook, and no raster whose name starts
\* with its prefix r3_to_rast_tmp_<pid> is left in the workspace.
C1_CleanupOnEveryExit ==
    \A p \in Procs :
        (proc[p].pc = "done"
            /\ proc[p].outcome \in {"ok", "fatal", "CalledModuleError"})
        => /\ "g.remove" \in Invoked(p)
           /\ \A m \in workspace : ~StartsWith(m, PrefixBase \o Str(pid[p]))

C1_Witness ==
    \E p \in Procs :
        /\ proc[p].pc = "done"
        /\ proc[p].outcome = "CalledModuleError"
        /\ Cardinality(proc[p].created) >= 2
        /\ proc[p].removed = proc[p].created

\* C2: a coordinates option that does not have 4 components ends the run in
\* the fatal input error, and none of the pipeline's external commands is
\* ever invoked.
C2_FatalBeforeAnyCommand ==
    \A p \in Procs :
        (proc[p].options.coordinates # NotRead
            /\ ComponentCount(proc[p].options.coordinates) # 4)
        => /\ proc[p].outcome = "fatal"
           /\ Invoked(p) \cap PipelineCommands = {}

C2_Witness ==
    \E p \in Procs :
        /\ proc[p].pc = "done"
        /\ proc[p].outcome = "fatal"
        /\ proc[p].options.coordinates # NotRead
        /\ ComponentCount(proc[p].options.coordinates) = 3
        /\ proc[p].options.coordinates[1] = ","

\* C3: every r.profile call is given the same pair of points: the two input
\* points, the one of smaller x first.
C3_ProfilesUseWestFirstPair ==
    \A p \in Procs :
        \A i \in DOMAIN proc[p].profiled :
            LET c == proc[p].profiled[i].coordinates
                g == Given(p)
            IN  /\ c[1][1] <= c[2][1]
                /\ c = g \/ c = <<g[2], g[1]>>
                /\ g[1][1] <= g[2][1] => c = g
                /\ c = proc[p].profiled[1].coordinates

C3_Witness ==
    \E p \in Procs :
        /\ Len(proc[p].profiled) >= 3
        /\ Given(p)[1][1] > Given(p)[2][1]
        /\ proc[p].profiled[2].input # proc[p].profiled[1].input

\* C4 as claimed: the payload has one data row per flattened layer (the rows
\* header field) and every data row has cols tokens, whatever the per-layer
\* profile outputs are.
C4_Original ==
    \A p \in Procs :
        PayloadSent(p)
        => LET a == proc[p].ascii_input
           IN  /\ Len(a.rows) = region.depths
               /\ a.header.rows = Len(a.rows)
               /\ \A i \in DOMAIN a.rows : Len(a.rows[i]) = a.header.cols

\* C4 amended: the payload has one data row per listed layer (the rows header
\* field; alone in the mapset these are the flattened layers), and every data
\* row has as many tokens as its own layer's profile has lines.
C4_RowsFollowProfiles ==
    \A p \in Procs :
        PayloadSent(p)
        => LET a == proc[p].ascii_input
           IN  /\ Len(a.rows) = Len(proc[p].maps)
               /\ Len(a.rows) = region.depths
               /\ a.header.rows = Len(a.rows)
               /\ \A i \in DOMAIN a.rows : Len(a.rows[i]) = proc[p].lens[i]

C4_Witness ==
    \E p \in Procs :
        /\ PayloadSent(p)
        /\ Len(proc[p].ascii_input.rows) = 2
        /\ proc[p].lens[1] # proc[p].ascii_input.header.cols
        /\ proc[p].lens[2] = proc[p].ascii_input.header.cols

\* C5: before the offset is applied south = west = 0, east - west is cols
\* times the average of the two horizontal cell sizes, and north - south is
\* rows times the vertical cell size.
C5_BaseExtent ==
    \A p \in Procs :
        proc[p].pc = "offset"
        => LET e == proc[p].ext
               cols == Len(proc[p].profile)
               rows == Len(proc[p].maps)
           IN  /\ e.s = 0 /\ e.w = 0
               /\ 2 * (e.e - e.w) = cols * (region.ewres + region.nsres) * FScale
               /\ e.n - e.s = rows * region.tbres * FScale

C5_Witness ==
    \E p \in Procs :
        /\ proc[p].pc = "offset"
        /\ Len(proc[p].profile) = 2
        /\ Len(proc[p].maps) = 1
        /\ region.ewres # region.nsres

\* C6: applying the offset (fx, fy) moves west and east by (east - west) * fx
\* and south and north by (north - south) * fy, the header keeps width and
\* height; without an offset the extent stays as it is.
C6_OffsetIsTranslation ==
    [][\A p \in Procs :
        (proc[p].pc = "offset" /\ proc'[p].pc = "loop")
        => LET a == proc[p].ext
               b == proc'[p].ext
               h == proc'[p].ascii_input.header
               o == proc[p].options.offset
           IN  /\ h.east - h.west = a.e - a.w
               /\ h.north - h.south = a.n - a.s
               /\ h.east = b.e /\ h.west = b.w /\ h.north = b.n /\ h.south = b.s
               /\ IF o = <<>> THEN b = a
                  ELSE /\ 100 * (b.w - a.w) = (a.e - a.w) * ParseFloat(Split(o)[1])
                       /\ 100 * (b.s - a.s) = (a.n - a.s) * ParseFloat(Split(o)[2])
                       /\ b.e - a.e = b.w - a.w
                       /\ b.n - a.n = b.s - a.s]_vars

C6_Witness ==
    \E p \in Procs :
        /\ proc[p].pc = "loop"
        /\ proc[p].options.offset # <<>>
        /\ proc[p].ext.w > 0
        /\ proc[p].ext.s > 0
        /\ proc[p].ext.w # proc[p].ext.s

\* C7 as claimed: the slice line has two vertices and one category, and its
\* vertices are the two points in the order the user gave them.
C7_Original ==
    \A p \in Procs :
        proc[p].slice_ascii # <<>>
        => LET f == proc[p].slice_ascii[1]
           IN  /\ Len(proc[p].slice_ascii) = 1
               /\ f.type = "L" /\ f.ncoords = 2 /\ f.ncats = 1
               /\ Len(f.points) = 2 /\ Len(f.cats) = 1
               /\ f.points = Given(p)

\* C7 amended: the slice line has two vertices and one category, and its
\* vertices are the two points west first: in the user's order when
\* x1 <= x2, in the opposite order when x1 > x2.
C7_SliceLineWestFirst ==
    \A p \in Procs :
        proc[p].slice_ascii # <<>>
        => LET f == proc[p].slice_ascii[1]
               g == Given(p)
           IN  /\ Len(proc[p].slice_ascii) = 1
               /\ f.type = "L" /\ f.ncoords = 2 /\ f.ncats = 1
               /\ Len(f.points) = 2 /\ Len(f.cats) = 1
               /\ f.points = IF g[1][1] <= g[2][1] THEN g ELSE <<g[2], g[1]>>

C7_Witness ==
    \E p \in Procs :
        /\ proc[p].slice_ascii # <<>>
        /\ Given(p)[1][1] > Given(p)[2][1]

\* C8: the data rows run from the top layer to the bottom layer: row i holds
\* the values of the layer at position N + 1 - i of the listing, which is
\* level N + 1 - i, and every layer gives one row.
C8_RowsTopToBottom ==
    \A p \in Procs :
        PayloadSent(p)
        => LET rows == proc[p].ascii_input.rows
               N == Len(proc[p].maps)
           IN  /\ Len(rows) = N
               /\ \A i \in 1..N :
                    /\ proc[p].maps[i] = LevelName(PrefixBase \o Str(pid[p]), i)
                    /\ Len(rows[i]) > 0
                    /\ \A j \in 1..Len(rows[i]) :
                         /\ rows[i][j].layer = proc[p].maps[N + 1 - i]
                         /\ rows[i][j].col = "value"
                         /\ rows[i][j].sample = j

C8_Witness ==
    \E p \in Procs :
        /\ PayloadSent(p)
        /\ Len(proc[p].maps) = 2
        /\ Len(proc[p].ascii_input.rows[1]) = 2

HasComma(u) == \E i \in 1..Len(u) : u[i] = ","

UnitsRead(p) == proc[p].options.units # NotRead

C10_PrefixIsPrivate ==
    \A p \in Procs : \A q \in Procs \ {p} :
        /\ \A i \in DOMAIN proc[p].maps : proc[p].maps[i] \notin proc[q].created
        /\ proc[p].removed \cap proc[q].created = {}

====
